---- MODULE Spec2Model ----
(***************************************************************************)
(* Label fusion of platipy (platipy/imaging/label/fusion.py):              *)
(* compute_weight_map, combine_labels_staple, combine_labels and           *)
(* process_probability_image, each modelled as one call: the arguments of  *)
(* the call are drawn in the initial state, the action runs the function   *)
(* body to its return or to the exception it raises.                       *)
(*                                                                         *)
(* Numbers.  Voxel values are exact rationals [n, d] (d >= 0); d = 0       *)
(* stands for the IEEE values the float pixel types produce on a division  *)
(* by zero: n > 0 is +inf, n = 0 is NaN.  An image is a sequence of voxel  *)
(* values (one axis), a 2-D image a function on <<row, col>>.              *)
(***************************************************************************)
EXTENDS Integers, Sequences, FiniteSets, TLC

VARIABLES
  pc,      \* "call": the function has been called; "done": it returned or raised
  call,    \* the arguments of the call (call.fn names the function)
  env,     \* what the libraries the call uses are built to do (scipy's pearsonr)
  locals,  \* the local variables of the function body, by their source names
  ret,     \* the returned value (<<>> when the call raised)
  raised   \* "" or the exception the call ended with

vars == <<pc, call, env, locals, ret, raised>>

----------------------------------------------------------------------------
(* Bounds of the model *)

\* upper-casing is tried on every subset of the first MaxCasePrefix letters
MaxCasePrefix == 2
\* largest voxel value of an input image
MaxVal == 1
\* largest resampled grid size on the axis
MaxN == 3
\* largest patch_window_mm
MaxWindowMM == 4
\* largest voxel value of a probability image
MaxProb == 1
\* number of atlas cases
MaxCases == 2
\* largest weight-map voxel value
MaxWeight == 1
\* consensus values are the levels 0..Levels of an increasing scale of reals,
\* level 0 being 0.0 and level Levels being 1.0
Levels == 3

----------------------------------------------------------------------------
(* Arithmetic on voxel values *)

Rat(n, d) == [n |-> n, d |-> d]
Zero == Rat(0, 1)
One == Rat(1, 1)
Inf == Rat(1, 0)
NaN == Rat(0, 0)
IsNaN(a) == a.n = 0 /\ a.d = 0
IsFinite(a) == a.d > 0
\* IEEE comparison: every comparison with NaN is false
RatLess(a, b) == ~IsNaN(a) /\ ~IsNaN(b) /\ a.n * b.d < b.n * a.d
RatEq(a, b) ==
  /\ ~IsNaN(a) /\ ~IsNaN(b)
  /\ IF a.d = 0 \/ b.d = 0 THEN a.d = b.d /\ (a.n > 0) = (b.n > 0)
     ELSE a.n * b.d = b.n * a.d
Sign(i) == IF i > 0 THEN 1 ELSE IF i < 0 THEN -1 ELSE 0
Abs(i) == IF i < 0 THEN -i ELSE i
\* the denominator is kept non-negative; x/0 is +-inf, 0/0 and inf/inf are NaN
RatNorm(n, d) ==
  IF d < 0 THEN Rat(-n, -d) ELSE IF d = 0 THEN Rat(Sign(n), 0) ELSE Rat(n, d)
RatAdd(a, b) ==
  IF IsNaN(a) \/ IsNaN(b) THEN NaN
  ELSE IF a.d = 0 /\ b.d = 0 THEN (IF a.n = b.n THEN a ELSE NaN)
  ELSE IF a.d = 0 THEN a
  ELSE IF b.d = 0 THEN b
  ELSE Rat(a.n * b.d + b.n * a.d, a.d * b.d)
RatMul(a, b) ==
  IF IsNaN(a) \/ IsNaN(b) THEN NaN ELSE RatNorm(a.n * b.n, a.d * b.d)
RatDiv(a, b) ==
  IF IsNaN(a) \/ IsNaN(b) THEN NaN ELSE RatNorm(a.n * b.d, a.d * b.n)
RECURSIVE IntPow(_, _)
IntPow(b, e) == IF e = 0 THEN 1 ELSE b * IntPow(b, e - 1)
\* std::pow(x, p) for p >= 0; pow(x, 0) = 1 for every x, inf and NaN included
RatPow(a, p) ==
  IF p = 0 THEN One
  ELSE IF IsNaN(a) THEN NaN
  ELSE RatNorm(IntPow(a.n, p), IntPow(a.d, p))

RECURSIVE SeqSum(_)
SeqSum(s) == IF s = <<>> THEN 0 ELSE Head(s) + SeqSum(Tail(s))
RECURSIVE RatSum(_)
\* reduce(lambda x, y: x + y, s) of a non-empty sequence
RatSum(s) == IF Len(s) = 1 THEN s[1] ELSE RatAdd(RatSum(SubSeq(s, 1, Len(s) - 1)), s[Len(s)])
\* numpy's max(): NaN when any element is NaN
ArrayMax(img) ==
  IF \E i \in DOMAIN img : IsNaN(img[i]) THEN NaN
  ELSE CHOOSE m \in {img[i] : i \in DOMAIN img} :
         \A i \in DOMAIN img : ~RatLess(m, img[i])
ImageOfInts(s) == [i \in DOMAIN s |-> Rat(s[i], 1)]
Min2(a, b) == IF a < b THEN a ELSE b
Max2(a, b) == IF a > b THEN a ELSE b

----------------------------------------------------------------------------
(* Strings are sequences of characters: str.lower() *)

UpperCase ==
  <<"A","B","C","D","E","F","G","H","I","J","K","L","M",
    "N","O","P","Q","R","S","T","U","V","W","X","Y","Z">>
LowerCase ==
  <<"a","b","c","d","e","f","g","h","i","j","k","l","m",
    "n","o","p","q","r","s","t","u","v","w","x","y","z">>
LowerChar(c) ==
  IF \E i \in DOMAIN UpperCase : UpperCase[i] = c
  THEN LowerCase[CHOOSE i \in DOMAIN UpperCase : UpperCase[i] = c] ELSE c
UpperChar(c) ==
  IF \E i \in DOMAIN LowerCase : LowerCase[i] = c
  THEN UpperCase[CHOOSE i \in DOMAIN LowerCase : LowerCase[i] = c] ELSE c
Lower(s) == [i \in DOMAIN s |-> LowerChar(s[i])]

NameUnweighted == <<"u","n","w","e","i","g","h","t","e","d">>
NameGlobal == <<"g","l","o","b","a","l">>
NameLocal == <<"l","o","c","a","l">>
NameBlock == <<"b","l","o","c","k">>
NamePatchCorrelation ==
  <<"p","a","t","c","h","_","c","o","r","r","e","l","a","t","i","o","n">>

----------------------------------------------------------------------------
(* compute_weight_map: the voxel-wise schemes *)

\* the dispatch of a build that forgot .lower()
SchemeCaseSensitive(vote_type) ==
  IF vote_type = NamePatchCorrelation THEN "patch_correlation"
  ELSE IF vote_type = NameUnweighted THEN "unweighted"
  ELSE IF vote_type = NameGlobal THEN "global"
  ELSE IF vote_type = NameLocal THEN "local"
  ELSE IF vote_type = NameBlock THEN "block"
  ELSE "invalid"

\* vote_type.lower() compared with the five names, in the order of the code
Scheme(vote_type) ==
  LET v == Lower(vote_type) IN
  IF v = NamePatchCorrelation THEN "patch_correlation"
  ELSE IF v = NameUnweighted THEN "unweighted"
  ELSE IF v = NameGlobal THEN "global"
  ELSE IF v = NameLocal THEN "local"
  ELSE IF v = NameBlock THEN "block"
  ELSE "invalid"

SquaredDifference(a, b) == [i \in DOMAIN a |-> (a[i] - b[i]) * (a[i] - b[i])]

\* sitk.DiscreteGaussian: the kernel is non-negative and sums to 1, so every
\* output voxel lies between the least and the greatest input voxel; the model
\* takes every integer image in that range as a possible output.
DiscreteGaussian(img) ==
  LET vals == {img[i] : i \in DOMAIN img}
      lo == CHOOSE m \in vals : \A x \in vals : m <= x
      hi == CHOOSE m \in vals : \A x \in vals : m >= x
  IN [DOMAIN img -> lo..hi]

\* sitk.BoxMean(image, radius): the mean over the box cropped to the image
BoxMean(img, radius) ==
  [i \in DOMAIN img |->
     LET lo == Max2(1, i - radius)
         hi == Min2(Len(img), i + radius)
     IN Rat(SeqSum(SubSeq(img, lo, hi)), hi - lo + 1)]

\* sitk.Mask(image, maskImage, outsideValue, maskingValue): the voxels whose
\* mask value equals maskingValue become outsideValue, the others are copied
SitkMask(img, mask, outsideValue, maskingValue) ==
  [i \in DOMAIN img |-> IF mask[i] = maskingValue THEN outsideValue ELSE img[i]]
\* sitk.Mask(image, mask) with its defaults outsideValue=0, maskingValue=0
Mask(img, mask) == SitkMask(img, mask, Zero, 0)

\* image / constant: the divide filter refuses a zero constant
DivideByConstant(img, c) ==
  IF RatEq(c, Zero)
  THEN [raised |-> "RuntimeError: denominator should not be set to zero", image |-> <<>>]
  ELSE [raised |-> "", image |-> [i \in DOMAIN img |-> RatDiv(img[i], c)]]

\* the two isinstance tests on vote_params["normalise"]
Normalise(weight_map, normalise) ==
  IF normalise.kind = "bool"
  THEN (IF normalise.val THEN DivideByConstant(weight_map, ArrayMax(weight_map))
        ELSE [raised |-> "", image |-> weight_map])
  ELSE IF normalise.kind = "image"
  THEN DivideByConstant(weight_map, ArrayMax(Mask(weight_map, normalise.val)))
  ELSE [raised |-> "", image |-> weight_map]

UnweightedMap(target_image) ==
  [i \in DOMAIN target_image |-> RatAdd(RatMul(Rat(target_image[i], 1), Zero), One)]

GlobalMap(target_image, sqd, factor) ==
  LET sum_squared_difference == SeqSum(sqd)
      global_weight == RatNorm(factor, sum_squared_difference)
  IN [i \in DOMAIN target_image |->
        RatAdd(RatMul(Rat(target_image[i], 1), Zero), global_weight)]

LocalMap(raw_map, epsilon) ==
  [i \in DOMAIN raw_map |-> RatDiv(One, Rat(raw_map[i] + epsilon, 1))]

BlockMap(sqd, factor, gain, block_size) ==
  LET raw_map == BoxMean(sqd, block_size) IN
  [i \in DOMAIN sqd |->
     RatMul(Rat(factor, 1), RatPow(RatDiv(One, raw_map[i]), Abs(gain) \div 2))]

\* lines 146-203: the result of the voxel-wise schemes, raw_map being what
\* sitk.DiscreteGaussian returned for the "local" scheme
VoxelSchemes(c, raw_map) ==
  LET p == c.vote_params
      scheme == Scheme(c.vote_type)
      sqd == SquaredDifference(c.target_image, c.moving_image)
      weights ==
        IF scheme = "unweighted" THEN UnweightedMap(c.target_image)
        ELSE IF scheme = "global" THEN GlobalMap(c.target_image, sqd, p.factor)
        ELSE IF scheme = "local" THEN LocalMap(raw_map, p.epsilon)
        ELSE BlockMap(sqd, p.factor, p.gain, p.blockSize)
      out == IF scheme \in {"local", "block"} THEN Normalise(weights, p.normalise)
             ELSE [raised |-> "", image |-> weights]
  IN IF scheme = "invalid"
     THEN [scheme |-> scheme, raised |-> "ValueError: Weighting scheme not valid.",
           unnormalised |-> <<>>, ret |-> <<>>]
     ELSE [scheme |-> scheme, raised |-> out.raised,
           unnormalised |-> weights, ret |-> out.image]

----------------------------------------------------------------------------
(* compute_weight_map: the patch_correlation scheme, on one axis            *)
(* (np.pad and view_as_windows treat every axis independently)              *)

\* A correlation value: shift + num / sqrt(den2), or NaN
Corr(num, den2) == [nan |-> FALSE, shift |-> 0, num |-> num, den2 |-> den2]
CorrNaN == [nan |-> TRUE, shift |-> 0, num |-> 0, den2 |-> 1]
CorrZero == Corr(0, 1)
CorrIsZero(r) == ~r.nan /\ r.shift = 0 /\ r.num = 0

Zeros(k) == [i \in 1..k |-> 0]

\* padding by half a window on both sides
PadderSymmetric(i) == <<i \div 2, i \div 2>>
\* line 99: (before, after) pad widths of a window of i voxels
Padder(i) == <<(i - 1) \div 2, i \div 2>>

\* np.pad(arr, padder): constant zero padding
Pad(arr, padder) == Zeros(padder[1]) \o arr \o Zeros(padder[2])

\* view_as_windows(arr, w) with step 1: the windows, by position
ViewAsWindows(arr, w) == [k \in 1..(Len(arr) - w + 1) |-> SubSeq(arr, k, k + w - 1)]

\* view[i, :][np.where(patch_mask)]
RECURSIVE WhereMask(_, _)
WhereMask(patch, patch_mask) ==
  IF patch = <<>> THEN <<>>
  ELSE (IF Head(patch_mask) # 0 THEN <<Head(patch)>> ELSE <<>>)
       \o WhereMask(Tail(patch), Tail(patch_mask))

SeqProd(x, y) == [i \in DOMAIN x |-> x[i] * y[i]]

\* scipy.stats.pearsonr.  On fewer than 2 points scipy >= 1.3 raises
\* ValueError and older releases return NaN (0/0): build names which.
\* A constant input gives NaN in every release.
Pearsonr(x, y, build) ==
  LET n == Len(x)
      vx == n * SeqSum(SeqProd(x, x)) - SeqSum(x) * SeqSum(x)
      vy == n * SeqSum(SeqProd(y, y)) - SeqSum(y) * SeqSum(y)
      cov == n * SeqSum(SeqProd(x, y)) - SeqSum(x) * SeqSum(y)
  IN IF n < 2
     THEN (IF build = "raise"
           THEN [raised |-> "ValueError: x and y must have length at least 2.", sr |-> CorrNaN]
           ELSE [raised |-> "", sr |-> CorrNaN])
     ELSE IF vx = 0 \/ vy = 0 THEN [raised |-> "", sr |-> CorrNaN]
     ELSE [raised |-> "", sr |-> Corr(cov, vx * vy)]

\* lines 116-126: the loop over the patches from patch i on; it stops at the
\* first patch on which pearsonr raises
RECURSIVE PatchLoop(_, _, _, _, _, _)
PatchLoop(i, view_target, view_moving, view_mask, build, corr_values) ==
  IF i > Len(view_target) THEN [raised |-> "", corr_values |-> corr_values]
  ELSE LET patch_mask == view_mask[i]
           patch_target == WhereMask(view_target[i], patch_mask)
           patch_moving == WhereMask(view_moving[i], patch_mask)
           p == Pearsonr(patch_target, patch_moving, build)
       IN IF p.raised # "" THEN [raised |-> p.raised, corr_values |-> corr_values]
          ELSE PatchLoop(i + 1, view_target, view_moving, view_mask, build,
                         Append(corr_values, p.sr))

\* line 130: corr_arr[np.isnan(corr_arr)] = 0
NanToZero(corr_arr) == [i \in DOMAIN corr_arr |-> IF corr_arr[i].nan THEN CorrZero ELSE corr_arr[i]]

\* vote_params["correlation_function"]: the default x + 1, or abs
CorrelationFunction(f, corr_img) ==
  [i \in DOMAIN corr_img |->
     IF f = "add_one" THEN [corr_img[i] EXCEPT !.shift = @ + 1]
     ELSE [corr_img[i] EXCEPT !.num = Abs(@)]]

\* lines 80-144.  The resampled arrays are what smooth_and_resample returned;
\* its spacing is the requested voxel size, and the target grid is taken to be
\* the resampled grid, on whose nodes sitk.Resample returns the node values.
PatchCorrelation(c, e) ==
  LET p == c.vote_params
      voxel_size == p.resampled_voxel_size_mm
      size == Len(e.img_target_res)
      arr_mask0 == [i \in DOMAIN e.img_target_res |-> 0 * e.img_target_res[i] + 1]
      window_box_im == p.patch_window_mm \div voxel_size
      padder == Padder(window_box_im)
      arr_target == Pad(e.img_target_res, padder)
      arr_moving == Pad(e.img_moving_res, padder)
      arr_mask == Pad(arr_mask0, padder)
      view_target == ViewAsWindows(arr_target, window_box_im)
      view_moving == ViewAsWindows(arr_moving, window_box_im)
      view_mask == ViewAsWindows(arr_mask, window_box_im)
      loop == PatchLoop(1, view_target, view_moving, view_mask, e.pearsonr, <<>>)
      corr_arr == NanToZero(loop.corr_values)
      base == [scheme |-> "patch_correlation", window_box_im |-> window_box_im,
               size |-> size, padder |-> padder, view_mask |-> <<>>,
               corr_values |-> <<>>, corr_arr |-> <<>>, raised |-> "", ret |-> <<>>]
  IN IF padder[1] < 0 \/ padder[2] < 0
     THEN [base EXCEPT !.raised = "ValueError: index can't contain negative values"]
     ELSE IF window_box_im < 1 \/ window_box_im > Len(arr_target)
     THEN [base EXCEPT !.raised = "ValueError: window_shape is incompatible with arr_in.shape"]
     ELSE IF loop.raised # ""
     THEN [base EXCEPT !.view_mask = view_mask, !.corr_values = loop.corr_values,
                       !.raised = loop.raised]
     ELSE IF Len(loop.corr_values) # size
     THEN [base EXCEPT !.view_mask = view_mask, !.corr_values = loop.corr_values,
                       !.raised = "ValueError: cannot reshape array"]
     ELSE [base EXCEPT !.view_mask = view_mask, !.corr_values = loop.corr_values,
                       !.corr_arr = corr_arr,
                       !.ret = CorrelationFunction(p.correlation_function, corr_arr)]

\* compute_weight_map(target_image, moving_image, vote_type, vote_params)
compute_weight_map ==
  /\ pc = "call"
  /\ call.fn = "compute_weight_map"
  /\ \E raw_map \in
        (IF Scheme(call.vote_type) = "local"
         THEN DiscreteGaussian(SquaredDifference(call.target_image, call.moving_image))
         ELSE {<<>>}) :
       LET r == IF Scheme(call.vote_type) = "patch_correlation"
                THEN PatchCorrelation(call, env)
                ELSE VoxelSchemes(call, raw_map)
       IN /\ locals' = [r EXCEPT !.ret = <<>>]
          /\ ret' = r.ret
          /\ raised' = r.raised
  /\ pc' = "done"
  /\ UNCHANGED <<call, env>>

----------------------------------------------------------------------------
(* Calls of compute_weight_map *)

Bool(b) == [kind |-> "bool", val |-> b]
MaskImage(m) == [kind |-> "image", val |-> m]

\* lines 58-68, in model units (factor and epsilon scaled to small integers)
DefaultVoteParams ==
  [sigma |-> 2, epsilon |-> 1, factor |-> 1, gain |-> 6, blockSize |-> 5,
   normalise |-> Bool(FALSE), patch_window_mm |-> 25,
   resampled_voxel_size_mm |-> 3, correlation_function |-> "add_one"]

RecognisedNames ==
  {NameUnweighted, NameGlobal, NameLocal, NameBlock, NamePatchCorrelation}
OtherNames ==
  {<<>>, <<"b","l","o","c">>, <<"l","o","c","a","l","s">>, <<"l","o","c","a","l"," ">>,
   <<"m","a","j","o","r","i","t","y">>, <<"w","e","i","g","h","t","e","d">>,
   <<"p","a","t","c","h","-","c","o","r","r","e","l","a","t","i","o","n">>}
\* a name with some of its first MaxCasePrefix letters, or all of them, in upper case
CaseVariants(name) ==
  {[i \in DOMAIN name |-> IF i \in up THEN UpperChar(name[i]) ELSE name[i]] :
     up \in SUBSET (1..Min2(MaxCasePrefix, Len(name)))}
  \cup {[i \in DOMAIN name |-> UpperChar(name[i])]}
VoteTypes == UNION {CaseVariants(name) : name \in RecognisedNames \cup OtherNames}

Images(n) == [1..n -> 0..MaxVal]

CallWeightMap(vote_type, target_image, moving_image, vote_params) ==
  [fn |-> "compute_weight_map", vote_type |-> vote_type, target_image |-> target_image,
   moving_image |-> moving_image, vote_params |-> vote_params]
Env(build, img_target_res, img_moving_res) ==
  [pearsonr |-> build, img_target_res |-> img_target_res, img_moving_res |-> img_moving_res]

Start == pc = "call" /\ locals = <<>> /\ ret = <<>> /\ raised = ""

\* every spelling of vote_type, on two-voxel images with the default parameters
InitDispatch ==
  /\ Start
  /\ \E vote_type \in VoteTypes, target_image \in Images(2), moving_image \in Images(2) :
       call = CallWeightMap(vote_type, target_image, moving_image, DefaultVoteParams)
  /\ \E build \in {"raise", "nan"} : env = Env(build, <<0, 1>>, <<1, 0>>)
SpecDispatch == InitDispatch /\ [][compute_weight_map]_vars

\* the "local" and "block" schemes with every normalise: False, True, a mask
InitNormalise ==
  /\ Start
  /\ env = Env("raise", <<0, 1>>, <<1, 0>>)
  /\ \E target_image \in Images(3), moving_image \in Images(3),
        normalise \in {Bool(FALSE), Bool(TRUE)} \cup {MaskImage(m) : m \in [1..3 -> {0, 1}]} :
       \/ \E epsilon \in {1, 2} :
            call = CallWeightMap(NameLocal, target_image, moving_image,
                     [DefaultVoteParams EXCEPT !.normalise = normalise, !.epsilon = epsilon])
       \/ \E factor \in {1, 2}, gain \in {-2, 0, 2, 6}, blockSize \in {0, 1} :
            call = CallWeightMap(NameBlock, target_image, moving_image,
                     [DefaultVoteParams EXCEPT !.normalise = normalise, !.factor = factor,
                                               !.gain = gain, !.blockSize = blockSize])
SpecNormalise == InitNormalise /\ [][compute_weight_map]_vars

\* the patch_correlation scheme on every resampled grid of 1..MaxN voxels.
\* smooth_and_resample is a collaborator outside this file: the arrays it
\* returns are drawn freely, on a grid of the size of the target grid.
InitPatch ==
  /\ Start
  /\ \E n \in 1..MaxN :
       /\ \E img_target_res \in Images(n), img_moving_res \in Images(n),
             build \in {"raise", "nan"} :
            env = Env(build, img_target_res, img_moving_res)
       /\ \E patch_window_mm \in 0..MaxWindowMM, voxel_size \in {1, 2},
             f \in {"add_one", "abs"} :
            call = CallWeightMap(NamePatchCorrelation,
                     [i \in 1..n |-> MaxVal * (i % 2)], [i \in 1..n |-> MaxVal * ((i + 1) % 2)],
                     [DefaultVoteParams EXCEPT !.patch_window_mm = patch_window_mm,
                                               !.resampled_voxel_size_mm = voxel_size,
                                               !.correlation_function = f])
SpecPatch == InitPatch /\ [][compute_weight_map]_vars

DoneWeightMap == pc = "done" /\ call.fn = "compute_weight_map"
InvalidScheme == "ValueError: Weighting scheme not valid."
SchemeOfName(v) ==
  CASE v = NameUnweighted -> "unweighted"
    [] v = NameGlobal -> "global"
    [] v = NameLocal -> "local"
    [] v = NameBlock -> "block"
    [] v = NamePatchCorrelation -> "patch_correlation"

\* C1: a vote_type whose lower-cased form is none of the five names ends in the
\* "Weighting scheme not valid." ValueError with nothing returned; every
\* spelling of a recognised name runs that name's scheme and never this error.
C1_Dispatch ==
  DoneWeightMap =>
    LET v == Lower(call.vote_type) IN
    /\ v \notin RecognisedNames => raised = InvalidScheme /\ ret = <<>>
    /\ v \in RecognisedNames =>
         /\ locals.scheme = SchemeOfName(v)
         /\ raised # InvalidScheme
         /\ (v = NameUnweighted =>
               raised = "" /\ ret = [i \in DOMAIN call.target_image |-> One])
C1_Witness ==
  /\ DoneWeightMap
  /\ call.vote_type # Lower(call.vote_type)
  /\ Lower(call.vote_type) \notin RecognisedNames
  /\ raised = InvalidScheme

\* the greatest voxel among those the mask selects
MaxOverMask(img, mask) == ArrayMax(WhereMask(img, mask))

\* C9: "local" and "block" with normalise=True return a map whose maximum is
\* exactly 1; with a (non-empty) mask image the maximum over the masked voxels
\* is 1; with normalise=False the weights are returned undivided.
C9_NormalisedMaxIsOne ==
  (DoneWeightMap /\ locals.scheme \in {"local", "block"}) =>
    LET normalise == call.vote_params.normalise IN
    /\ (normalise.kind = "bool" /\ normalise.val) =>
         raised = "" /\ RatEq(ArrayMax(ret), One)
    /\ (normalise.kind = "image" /\ \E i \in DOMAIN normalise.val : normalise.val[i] # 0) =>
         raised = "" /\ RatEq(MaxOverMask(ret, normalise.val), One)
    /\ (normalise.kind = "bool" /\ ~normalise.val) =>
         raised = "" /\ ret = locals.unnormalised
\* the same for the "local" scheme alone (epsilon > 0 keeps every weight finite)
NormalisedMaxIsOneLocal ==
  (DoneWeightMap /\ locals.scheme = "local") => C9_NormalisedMaxIsOne

Unmasked(patch_mask) == Len(WhereMask(patch_mask, patch_mask))
PatchIsDegenerate(k) ==
  LET w == locals.window_box_im
      m == locals.view_mask[k]
      x == WhereMask(ViewAsWindows(Pad(env.img_target_res, locals.padder), w)[k], m)
      y == WhereMask(ViewAsWindows(Pad(env.img_moving_res, locals.padder), w)[k], m)
  IN \/ Len(x) < 2
     \/ \A i \in DOMAIN x : x[i] = x[1]
     \/ \A i \in DOMAIN y : y[i] = y[1]

\* C8: with a patch window of at least one voxel the call does not raise, and
\* every patch with fewer than 2 unmasked points or a constant target or moving
\* patch has the correlation 0 in the correlation array.
C8_DegeneratePatchIsZero ==
  (DoneWeightMap /\ locals.scheme = "patch_correlation" /\ locals.window_box_im >= 1) =>
    /\ raised = ""
    /\ \A k \in DOMAIN locals.view_mask :
         PatchIsDegenerate(k) => CorrIsZero(locals.corr_arr[k])
\* the same on a scipy whose pearsonr returns NaN on fewer than 2 points
DegeneratePatchIsZeroOldScipy ==
  env.pearsonr = "nan" => C8_DegeneratePatchIsZero

\* C10: for a grid of n >= 1 voxels and a window of w >= 1 voxels the padded
\* arrays have exactly n patch positions, so the reshape onto the grid never
\* fails, and patch k holds voxel k of the unpadded array (so at least one
\* unmasked point).
C10_OnePatchPerVoxel ==
  (DoneWeightMap /\ locals.scheme = "patch_correlation" /\ locals.window_box_im >= 1) =>
    LET n == locals.size
        w == locals.window_box_im
        index == ViewAsWindows(Pad([i \in 1..n |-> i], locals.padder), w)
    IN /\ raised \notin {"ValueError: cannot reshape array",
                         "ValueError: index can't contain negative values",
                         "ValueError: window_shape is incompatible with arr_in.shape"}
       /\ Len(locals.view_mask) = n
       /\ raised = "" => Len(locals.corr_arr) = n /\ Len(ret) = n
       /\ \A k \in 1..n :
            /\ \E j \in 1..w : index[k][j] = k
            /\ Unmasked(locals.view_mask[k]) >= 1
C10_Witness ==
  /\ DoneWeightMap /\ locals.scheme = "patch_correlation"
  /\ locals.size = 3 /\ locals.window_box_im = 2 /\ locals.padder = <<0, 1>>
  /\ raised = "" /\ Len(ret) = 3
  /\ Unmasked(locals.view_mask[3]) = 1

----------------------------------------------------------------------------
(* The label combiners *)

\* A threshold argument: None, a bool, or a number (a level of the scale)
ThresholdNone == [kind |-> "None", val |-> 0]
ThresholdBool(b) == [kind |-> "bool", val |-> b]
ThresholdNum(x) == [kind |-> "num", val |-> x]
\* the default 1e-4: level 2, so that level 1 lies strictly between 0 and 1e-4
DefaultThreshold == ThresholdNum(2)
\* Python's truth value of the argument
Truthy(threshold) ==
  \/ threshold.kind = "bool" /\ threshold.val
  \/ threshold.kind = "num" /\ threshold.val # 0
\* the number a truthy threshold is passed as (True is 1.0)
AsLevel(threshold) == IF threshold.kind = "bool" THEN Levels ELSE threshold.val

\* keeping only the voxels strictly above the lower bound
SitkThresholdStrict(img, lower, upper, outsideValue) ==
  [i \in DOMAIN img |-> IF img[i] <= lower \/ img[i] > upper THEN outsideValue ELSE img[i]]
\* sitk.Threshold(image, lower, upper, outsideValue): voxels outside
\* [lower, upper] become outsideValue
SitkThreshold(img, lower, upper, outsideValue) ==
  [i \in DOMAIN img |-> IF img[i] < lower \/ img[i] > upper THEN outsideValue ELSE img[i]]

\* lines 230-233 and 286-289: if threshold: Threshold(lower=threshold, upper=1)
ThresholdStep(combined_label, threshold) ==
  IF Truthy(threshold)
  THEN SitkThreshold(combined_label, AsLevel(threshold), Levels, 0)
  ELSE combined_label

StructureOrder == <<"A", "B">>
Structures == {StructureOrder[i] : i \in DOMAIN StructureOrder}
Cases == 1..MaxCases

\* line 213-214: np.unique of the structure names of all cases, sorted
RECURSIVE SortedNames(_, _)
SortedNames(names, i) ==
  IF i > Len(StructureOrder) THEN <<>>
  ELSE (IF StructureOrder[i] \in names THEN <<StructureOrder[i]>> ELSE <<>>)
       \o SortedNames(names, i + 1)
UniqueNames(label_list_dict) ==
  SortedNames(UNION {DOMAIN label_list_dict[i] : i \in DOMAIN label_list_dict}, 1)

\* lines 218-221: the first case (in dict order) without the structure, or 0
FirstCaseWithout(d, key) ==
  IF \A i \in DOMAIN d : key \in DOMAIN d[i] THEN 0
  ELSE CHOOSE i \in DOMAIN d : key \notin DOMAIN d[i] /\ \A j \in DOMAIN d : j < i => key \in DOMAIN d[j]

\* lines 216-235: the loop over the structure names from position k on.
\* sitk.STAPLE followed by RescaleIntensity(0, 1) is e.rescaled[name].
RECURSIVE StapleLoop(_, _, _, _, _, _)
StapleLoop(label_list_dict, threshold, e, names, k, acc) ==
  IF k > Len(names) THEN [raised |-> "", rescaled |-> acc.rescaled, ret |-> acc.ret]
  ELSE LET structure_name == names[k]
           combined_label == ThresholdStep(e.rescaled[structure_name], threshold)
       IN IF FirstCaseWithout(label_list_dict, structure_name) # 0
          THEN [raised |-> "KeyError: structure_name", rescaled |-> acc.rescaled, ret |-> <<>>]
          ELSE StapleLoop(label_list_dict, threshold, e, names, k + 1,
                 [rescaled |-> acc.rescaled @@ (structure_name :> e.rescaled[structure_name]),
                  ret |-> acc.ret @@ (structure_name :> combined_label)])

\* combine_labels_staple(label_list_dict, threshold)
combine_labels_staple ==
  /\ pc = "call"
  /\ call.fn = "combine_labels_staple"
  /\ LET structure_name_list == UniqueNames(call.label_list_dict)
         r == StapleLoop(call.label_list_dict, call.threshold, env, structure_name_list, 1,
                         [rescaled |-> <<>>, ret |-> <<>>])
     IN /\ locals' = [structure_name_list |-> structure_name_list, rescaled |-> r.rescaled]
        /\ ret' = r.ret
        /\ raised' = r.raised
  /\ pc' = "done"
  /\ UNCHANGED <<call, env>>


\* image * image and image / image, voxel by voxel; the divide
\* functor returns the greatest float where the denominator is 0
ImageMul(a, b) == [i \in DOMAIN a |-> RatMul(a[i], b[i])]
FloatMax == Inf
ImageDivide(a, b) ==
  [i \in DOMAIN a |-> IF RatEq(b[i], Zero) THEN FloatMax ELSE RatDiv(a[i], b[i])]
\* image == 0, as a 0/1 image
EqualsZero(img) == [i \in DOMAIN img |-> IF RatEq(img[i], Zero) THEN 1 ELSE 0]

\* reduce with an initial value: an empty list gives the empty image
ReduceAddWithInitial(images) ==
  IF images = <<>> THEN [raised |-> "", image |-> <<>>]
  ELSE [raised |-> "",
        image |-> [i \in DOMAIN images[1] |-> RatSum([k \in DOMAIN images |-> images[k][i]])]]
\* reduce(lambda x, y: x + y, images): TypeError on an empty list
ReduceAdd(images) ==
  IF images = <<>>
  THEN [raised |-> "TypeError: reduce() of empty sequence with no initial value",
        image |-> <<>>]
  ELSE [raised |-> "",
        image |-> [i \in DOMAIN images[1] |-> RatSum([k \in DOMAIN images |-> images[k][i]])]]

\* sitk.Mask with the default maskingValue=0
WeightSumDefaultMasking(weight_sum_image) ==
  SitkMask(weight_sum_image, EqualsZero(weight_sum_image), One, 0)
\* lines 265-267: the zero voxels of the weight sum become 1
WeightSumImage(weight_sum_image) ==
  SitkMask(weight_sum_image, EqualsZero(weight_sum_image), One, 1)

\* line 256: the cases that have the structure, in the order of the dict
RECURSIVE ValidCaseIdList(_, _, _)
ValidCaseIdList(atlas_set, s_name, i) ==
  IF i > Len(atlas_set) THEN <<>>
  ELSE (IF s_name \in DOMAIN atlas_set[i] THEN <<i>> ELSE <<>>)
       \o ValidCaseIdList(atlas_set, s_name, i + 1)

\* lines 256-277 for one structure: the weighted average before smoothing.
\* atlas_set[i] stands for atlas_set[caseId][label].
WeightedAverage(atlas_set, s_name) ==
  LET valid_case_id_list == ValidCaseIdList(atlas_set, s_name, 1)
      no_weight == {k \in DOMAIN valid_case_id_list :
                      "Weight Map" \notin DOMAIN atlas_set[valid_case_id_list[k]]}
      weight_image_list ==
        [k \in DOMAIN valid_case_id_list |->
           ImageOfInts(atlas_set[valid_case_id_list[k]]["Weight Map"])]
      weight_sum == ReduceAdd(weight_image_list)
      weight_sum_image == WeightSumImage(weight_sum.image)
      weighted_labels ==
        [k \in DOMAIN valid_case_id_list |->
           ImageMul(weight_image_list[k],
                    ImageOfInts(atlas_set[valid_case_id_list[k]][s_name]))]
      label_sum == ReduceAdd(weighted_labels)
  IN IF no_weight # {}
     THEN [raised |-> "KeyError: 'Weight Map'", image |-> <<>>]
     ELSE IF weight_sum.raised # "" THEN [raised |-> weight_sum.raised, image |-> <<>>]
     ELSE IF label_sum.raised # "" THEN [raised |-> label_sum.raised, image |-> <<>>]
     ELSE [raised |-> "", image |-> ImageDivide(label_sum.image, weight_sum_image)]

\* lines 254-291: the loop over structure_name_list from position k on.
\* sitk.DiscreteGaussian followed by RescaleIntensity(0, 1) is e.rescaled[s_name].
RECURSIVE CombineLoop(_, _, _, _, _, _)
CombineLoop(atlas_set, threshold, e, names, k, acc) ==
  IF k > Len(names) THEN [acc EXCEPT !.raised = ""]
  ELSE LET s_name == names[k]
           avg == WeightedAverage(atlas_set, s_name)
           combined_label == ThresholdStep(e.rescaled[s_name], threshold)
       IN IF avg.raised # "" THEN [acc EXCEPT !.raised = avg.raised, !.ret = <<>>]
          ELSE CombineLoop(atlas_set, threshold, e, names, k + 1,
                 [raised |-> "",
                  weighted_average |-> acc.weighted_average @@ (s_name :> avg.image),
                  rescaled |-> acc.rescaled @@ (s_name :> e.rescaled[s_name]),
                  ret |-> acc.ret @@ (s_name :> combined_label)])

\* lines 247-250: a str names one structure, a list several
StructureNameList(structure_name) ==
  IF structure_name.kind = "str" THEN <<structure_name.val>> ELSE structure_name.val

\* combine_labels(atlas_set, structure_name, label, threshold, smooth_sigma)
combine_labels ==
  /\ pc = "call"
  /\ call.fn = "combine_labels"
  /\ LET structure_name_list == StructureNameList(call.structure_name)
         r == CombineLoop(call.atlas_set, call.threshold, env, structure_name_list, 1,
                [raised |-> "", weighted_average |-> <<>>, rescaled |-> <<>>, ret |-> <<>>])
     IN /\ locals' = [structure_name_list |-> structure_name_list,
                      weighted_average |-> r.weighted_average, rescaled |-> r.rescaled]
        /\ ret' = r.ret
        /\ raised' = r.raised
  /\ pc' = "done"
  /\ UNCHANGED <<call, env>>

----------------------------------------------------------------------------
(* Calls of the combiners *)

Str(name) == [kind |-> "str", val |-> name]
List(names) == [kind |-> "list", val |-> names]
\* a dict with the keys for which an image is given (<<>>: the key is absent)
Dict(keys, images) == [k \in {x \in keys : images[x] # <<>>} |-> images[k]]

LabelImages == {<<0, 1>>, <<1, 1>>}
WeightImages == [1..2 -> 0..MaxWeight]
RescaledImages == [1..2 -> 0..Levels]
Thresholds ==
  {ThresholdNone, ThresholdBool(FALSE), ThresholdBool(TRUE)}
  \cup {ThresholdNum(x) : x \in 0..Levels}

CaseDicts ==
  {Dict(Structures, images) : images \in [Structures -> LabelImages \cup {<<>>}]}
AtlasKeys == Structures \cup {"Weight Map"}
AtlasDicts ==
  {Dict(AtlasKeys, images) :
     images \in {f \in [AtlasKeys -> WeightImages \cup LabelImages \cup {<<1, 0>>, <<>>}] :
                   /\ f["Weight Map"] \in WeightImages \cup {<<>>}
                   /\ f["A"] \in LabelImages \cup {<<>>}
                   /\ f["B"] \in {<<1, 0>>, <<>>}}}
StructureNames == {Str("A"), List(<<"A", "B">>), List(<<"B", "A">>)}

CallStaple(label_list_dict, threshold) ==
  [fn |-> "combine_labels_staple", label_list_dict |-> label_list_dict,
   threshold |-> threshold]
CallCombine(atlas_set, structure_name, threshold) ==
  [fn |-> "combine_labels", atlas_set |-> atlas_set, structure_name |-> structure_name,
   threshold |-> threshold]

\* combine_labels_staple on every choice of the structures each case holds
InitStaple ==
  /\ Start
  /\ \E label_list_dict \in [Cases -> CaseDicts], threshold \in {DefaultThreshold, ThresholdNone} :
       call = CallStaple(label_list_dict, threshold)
  /\ \E a \in {<<0, 1>>, <<Levels, 1>>}, b \in {<<Levels, 0>>} :
       env = [rescaled |-> [s \in Structures |-> IF s = "A" THEN a ELSE b]]
SpecStaple == InitStaple /\ [][combine_labels_staple]_vars

\* combine_labels on every choice of weight map and structures of each case
InitCombine ==
  /\ Start
  /\ \E atlas_set \in [Cases -> AtlasDicts], structure_name \in StructureNames :
       call = CallCombine(atlas_set, structure_name, DefaultThreshold)
  /\ env = [rescaled |-> [s \in Structures |-> <<Levels, 0>>]]
SpecCombine == InitCombine /\ [][combine_labels]_vars

\* both combiners on complete cases, with every threshold and every rescaled image
InitClamp ==
  /\ Start
  /\ \E threshold \in Thresholds :
       \/ \E label_list_dict \in [Cases -> {d \in CaseDicts : DOMAIN d = Structures}] :
            call = CallStaple(label_list_dict, threshold)
       \/ \E atlas_set \in [Cases -> {d \in AtlasDicts : DOMAIN d = AtlasKeys /\ d["A"] = <<0, 1>>}] :
            call = CallCombine(atlas_set, Str("A"), threshold)
  /\ \E a \in RescaledImages, b \in {<<Levels, 0>>, <<1, 1>>} :
       env = [rescaled |-> [s \in Structures |-> IF s = "A" THEN a ELSE b]]
SpecClamp == InitClamp /\ [][combine_labels_staple \/ combine_labels]_vars


DoneStaple == pc = "done" /\ call.fn = "combine_labels_staple"
DoneCombine == pc = "done" /\ call.fn = "combine_labels"

\* C2: combine_labels_staple returns a consensus image for every structure
\* name that appears in at least one case; a case without the structure is
\* skipped and does not make the call fail.
C2_StapleSkipsMissing ==
  DoneStaple =>
    /\ raised = ""
    /\ \A i \in DOMAIN call.label_list_dict :
         \A s \in DOMAIN call.label_list_dict[i] : s \in DOMAIN ret

\* the cases of atlas_set that contribute to structure s
Contributing(s) == {i \in DOMAIN call.atlas_set : s \in DOMAIN call.atlas_set[i]}
WeightAt(i, v) == call.atlas_set[i]["Weight Map"][v]
LabelAt(i, s, v) == call.atlas_set[i][s][v]
\* sums over a set of cases, at voxel v
RECURSIVE SumWeights(_, _)
SumWeights(cases, v) ==
  IF cases = {} THEN 0
  ELSE LET i == CHOOSE x \in cases : TRUE
       IN WeightAt(i, v) + SumWeights(cases \ {i}, v)
RECURSIVE SumLabels(_, _, _)
SumLabels(cases, s, v) ==
  IF cases = {} THEN 0
  ELSE LET i == CHOOSE x \in cases : TRUE
       IN LabelAt(i, s, v) + SumLabels(cases \ {i}, s, v)
RECURSIVE SumWeightedLabels(_, _, _)
SumWeightedLabels(cases, s, v) ==
  IF cases = {} THEN 0
  ELSE LET i == CHOOSE x \in cases : TRUE
       IN WeightAt(i, v) * LabelAt(i, s, v) + SumWeightedLabels(cases \ {i}, s, v)

\* C3: before smoothing, the value of every voxel of every combined structure
\* is sum(weight_i * label_i) / S over the contributing cases, S being the sum
\* of their weights there, or 1 when that sum is 0: a voxel whose weights are
\* all 0 has the value 0, a voxel whose weights are all 1 the mean of the labels.
C3_WeightedAverage ==
  (DoneCombine /\ raised = "") =>
    \A s \in DOMAIN ret :
      \A v \in DOMAIN locals.weighted_average[s] :
        LET value == locals.weighted_average[s][v]
            cases == Contributing(s)
            W == SumWeights(cases, v)
            L == SumWeightedLabels(cases, s, v)
            S == IF W # 0 THEN W ELSE 1
        IN /\ IsFinite(value)
           /\ value.n * S = L * value.d
           /\ (\A i \in cases : WeightAt(i, v) = 0) => value.n = 0
           /\ (\A i \in cases : WeightAt(i, v) = 1) =>
                value.n * Cardinality(cases) = SumLabels(cases, s, v) * value.d
C3_Witness ==
  /\ DoneCombine /\ raised = "" /\ "A" \in DOMAIN ret
  /\ \A i \in Cases : i \in Contributing("A") /\ WeightAt(i, 1) = 1 /\ WeightAt(i, 2) = 0
  /\ LabelAt(1, "A", 1) = 0 /\ LabelAt(2, "A", 1) = 1 /\ LabelAt(1, "A", 2) = 1
  /\ RatEq(locals.weighted_average["A"][1], Rat(1, MaxCases))
  /\ RatEq(locals.weighted_average["A"][2], Zero)

\* a requested structure that no case holds together with a weight map
NoContributingCase(s) ==
  \A i \in DOMAIN call.atlas_set :
    ~(s \in DOMAIN call.atlas_set[i] /\ "Weight Map" \in DOMAIN call.atlas_set[i])

\* C4: when no case has both a weight map and a requested structure,
\* combine_labels raises and returns no consensus image for that structure
\* (no all-zero or empty image).
C4_NoContributingCaseFails ==
  DoneCombine =>
    \A k \in DOMAIN locals.structure_name_list :
      NoContributingCase(locals.structure_name_list[k]) =>
        /\ raised # ""
        /\ locals.structure_name_list[k] \notin DOMAIN ret
C4_Witness ==
  /\ DoneCombine
  /\ call.structure_name = List(<<"A", "B">>)
  /\ ~NoContributingCase("A") /\ NoContributingCase("B")
  /\ Contributing("B") = {}
  /\ raised = "TypeError: reduce() of empty sequence with no initial value"

\* C7: in both combiners, with a truthy threshold every voxel of the rescaled
\* image below the threshold is 0 in the result and every other voxel is kept;
\* with a falsy threshold (None, False, 0) the result is the rescaled image.
C7_ClampIffTruthy ==
  ((DoneStaple \/ DoneCombine) /\ raised = "") =>
    \A s \in DOMAIN ret :
      \A v \in DOMAIN ret[s] :
        LET x == locals.rescaled[s][v] IN
        IF call.threshold.kind = "None"
           \/ call.threshold = ThresholdBool(FALSE) \/ call.threshold = ThresholdNum(0)
        THEN ret[s][v] = x
        ELSE ret[s][v] = (IF x < AsLevel(call.threshold) THEN 0 ELSE x)
C7_Witness ==
  /\ DoneCombine /\ raised = ""
  /\ call.threshold = DefaultThreshold
  /\ locals.rescaled["A"] = <<1, Levels>>
  /\ ret["A"] = <<0, Levels>>
\* a level strictly between 0 and the default threshold survives threshold=None
SurvivesWithoutThreshold ==
  /\ DoneStaple /\ raised = "" /\ call.threshold = ThresholdNone
  /\ locals.rescaled["A"] = <<1, Levels>> /\ ret["A"] = <<1, Levels>>

----------------------------------------------------------------------------
(* process_probability_image, on a 3 x 3 image (the smallest with a hole) *)

Vox == (1..3) \X (1..3)
Border == {v \in Vox : v[1] \in {1, 3} \/ v[2] \in {1, 3}}
\* face connectivity (fullyConnected=False, the default of both filters)
Adjacent(u, v) == Abs(u[1] - v[1]) + Abs(u[2] - v[2]) = 1
\* position in the raster scan, the first index running fastest
Raster(v) == (v[2] - 1) * 3 + v[1]

\* the voxels of region reachable from seen through face neighbours
RECURSIVE Flood(_, _)
Flood(seen, region) ==
  LET more == {v \in region \ seen : \E u \in seen : Adjacent(u, v)}
  IN IF more = {} THEN seen ELSE Flood(seen \cup more, region)

Foreground(img) == {v \in Vox : img[v] # 0}
ImageOfSet(fg) == [v \in Vox |-> IF v \in fg THEN 1 ELSE 0]

\* sitk.BinaryThreshold(image, lowerThreshold): 1 on the voxels within
\* [lowerThreshold, 255], 0 elsewhere
BinaryThreshold(img, lowerThreshold) ==
  [v \in Vox |-> IF ~RatLess(img[v], lowerThreshold) /\ ~RatLess(Rat(255, 1), img[v])
                       /\ ~IsNaN(img[v])
                 THEN 1 ELSE 0]

\* sitk.BinaryFillhole: the background regions that do not touch the image
\* border become foreground
BinaryFillhole(img) ==
  LET fg == Foreground(img)
      bg == Vox \ fg
      outside == Flood(bg \cap Border, bg)
  IN ImageOfSet(fg \cup (bg \ outside))

\* sitk.ConnectedComponent: the components, labelled 1, 2, ... in the order
\* in which the raster scan meets them
RECURSIVE Components(_)
Components(fg) ==
  IF fg = {} THEN <<>>
  ELSE LET first == CHOOSE v \in fg : \A u \in fg : Raster(v) <= Raster(u)
           comp == Flood({first}, fg)
       IN <<comp>> \o Components(fg \ comp)

\* the label with the least count
ArgMin(counts) ==
  CHOOSE i \in DOMAIN counts :
    /\ \A j \in DOMAIN counts : counts[j] >= counts[i]
    /\ \A j \in DOMAIN counts : j < i => counts[j] > counts[i]
\* np.argmax: the first index of the greatest value
ArgMax(counts) ==
  CHOOSE i \in DOMAIN counts :
    /\ \A j \in DOMAIN counts : counts[j] <= counts[i]
    /\ \A j \in DOMAIN counts : j < i => counts[j] < counts[i]

\* the greatest voxel value of an integer image
ImageMax(img) == CHOOSE m \in {img[v] : v \in Vox} : \A v \in Vox : img[v] <= m

\* lines 305-329
ProcessProbabilityImage(probability_image, threshold) ==
  LET max == ImageMax(probability_image)
      normalised == [v \in Vox |-> RatNorm(probability_image[v], max)]
      binary_image == BinaryFillhole(BinaryThreshold(normalised, threshold))
      components == Components(Foreground(binary_image))
      label_indices == [i \in DOMAIN components |-> i]
      voxel_counts == [i \in DOMAIN components |-> Cardinality(components[i])]
      largest_component_label == label_indices[ArgMax(voxel_counts)]
      base == [raised |-> "", max |-> max, binary_image |-> <<>>,
               voxel_counts |-> <<>>, ret |-> <<>>]
  IN IF max = 0
     THEN [base EXCEPT !.raised = "RuntimeError: denominator should not be set to zero"]
     ELSE IF voxel_counts = <<>>
     THEN [base EXCEPT !.binary_image = binary_image, !.ret = binary_image]
     ELSE [base EXCEPT !.binary_image = binary_image, !.voxel_counts = voxel_counts,
                       !.ret = ImageOfSet(components[largest_component_label])]

\* process_probability_image(probability_image, threshold)
process_probability_image ==
  /\ pc = "call"
  /\ call.fn = "process_probability_image"
  /\ LET r == ProcessProbabilityImage(call.probability_image, call.threshold)
     IN /\ locals' = [r EXCEPT !.ret = <<>>]
        /\ ret' = r.ret
        /\ raised' = r.raised
  /\ pc' = "done"
  /\ UNCHANGED <<call, env>>

\* the default threshold 0.5, and 0, 1 and 2
ProbThresholds == {Rat(1, 2), Rat(0, 1), Rat(1, 1), Rat(2, 1)}

InitProb ==
  /\ Start
  /\ env = <<>>
  /\ \E probability_image \in [Vox -> 0..MaxProb], threshold \in ProbThresholds :
       call = [fn |-> "process_probability_image",
               probability_image |-> probability_image, threshold |-> threshold]
SpecProb == InitProb /\ [][process_probability_image]_vars

DoneProb == pc = "done" /\ call.fn = "process_probability_image"

\* C5: when the thresholded, hole-filled mask has a component, the result is a
\* 0/1 image whose 1-voxels are exactly one connected component of the mask,
\* and no component of the mask has more voxels.
C5_LargestComponent ==
  (DoneProb /\ raised = "" /\ Foreground(locals.binary_image) # {}) =>
    LET mask == Foreground(locals.binary_image)
        R == {v \in Vox : ret[v] = 1}
    IN /\ \A v \in Vox : ret[v] \in {0, 1}
       /\ R # {} /\ R \subseteq mask
       /\ \A r \in R : R = Flood({r}, mask)
       /\ \A u \in mask : Cardinality(Flood({u}, mask)) <= Cardinality(R)
\* a one-voxel region and a two-voxel region: only the larger one is returned
C5_Witness ==
  /\ DoneProb /\ raised = ""
  /\ Foreground(locals.binary_image) = {<<1, 1>>, <<3, 2>>, <<3, 3>>}
  /\ locals.voxel_counts = <<1, 2>>
  /\ {v \in Vox : ret[v] = 1} = {<<3, 2>>, <<3, 3>>}

\* no voxel of the image reaches the threshold after the division by the maximum
NoVoxelSelected ==
  LET img == call.probability_image
      max == ImageMax(img)
  IN \A v \in Vox :
       \/ img[v] <= 0 /\ call.threshold.n > 0
       \/ img[v] * call.threshold.d < call.threshold.n * max

\* C6: on an input with no selected voxel (an all-zero image included)
\* process_probability_image raises nothing and returns the empty binary image.
C6_EmptyIsNotAnError ==
  (DoneProb /\ NoVoxelSelected) =>
    raised = "" /\ ret = [v \in Vox |-> 0]
\* the same on the images with a voxel above zero
EmptyIsNotAnErrorNonZeroImage ==
  (\E v \in Vox : call.probability_image[v] > 0) => C6_EmptyIsNotAnError

====
